---- MODULE Spec2Model ----
(***************************************************************************)
(* Model of the TUS upload proxy of bunny-tus-upload: the in-memory        *)
(* session store (FileUploadService), the protocol handlers                *)
(* (FileUploadController) and the Bunny.net upstream they talk to.         *)
(*                                                                         *)
(* Time is counted in units of 24 hours (SESSION_TIMEOUT is 1).            *)
(* A handler runs atomically up to its first await; the chunk upload has   *)
(* one await (the forwarding PATCH), so it is two actions, with the        *)
(* upstream's handling of the forwarded request as an action in between.   *)
(***************************************************************************)
EXTENDS Integers, Sequences, FiniteSets, Bags, TLC

\* ---------------------------------------------------------------- bounds
MaxSessions == 1      \* sessions ever created under Spec
MaxIds == 2           \* identifiers uuidv4() can issue
MaxInFlight == 2      \* chunk uploads awaiting the upstream at one time
MaxSize == 2          \* largest declared file size, largest claimed offset
MaxLen == 1           \* largest chunk body
MaxTime == 1          \* the clock stops here

\* ------------------------------------------------------ program constants
SESSION_TIMEOUT == 1  \* 24 * 60 * 60 * 1000 ms, in units of 24 h

HTTP_OK == 200
HTTP_CREATED == 201
HTTP_NO_CONTENT == 204
HTTP_BAD_REQUEST == 400
HTTP_NOT_FOUND == 404
HTTP_CONFLICT == 409
HTTP_PRECONDITION_FAILED == 412
HTTP_SERVER_ERROR == 500

\* ------------------------------------------------------------- values
Ids == 1..MaxIds               \* uuidv4() values, in order of issue
NoId == 0                      \* undefined identifier
NA == -1                       \* a field the response does not carry
NoStatus == 0                  \* no upstream response (timeout, network error)

\* A request header: absent, present with no leading number ("abc"), a
\* decimal integer ("12"), or an integer followed by other characters
\* ("12.5", "12abc"), which parseInt reads as the integer.
Hdr(k, v) == [kind |-> k, val |-> v]
AbsentHdr == Hdr("absent", 0)
GarbageHdr == Hdr("garbage", 0)
IntHdrs(S) == {Hdr("int", n) : n \in S}
PrefixedHdrs(S) == {Hdr("prefixed", n) : n \in S}

\* parseInt(h, 10) and isNaN of it; !h for the header string
IsNaN(h) == h.kind \in {"absent", "garbage"}
ParseInt(h) == h.val
Falsy(h) == h.kind = "absent"

VARIABLES
    uploadSessions,   \* FileUploadService.uploadSessions: id -> UploadSession
    nextId,           \* number of ids issued so far
    now,              \* Date.now()
    bunny,            \* upstream: video id -> bytes accepted
    bunnyDeleted,     \* upstream: videos deleted
    pendingDeletes,   \* deleteVideo calls the upstream has not handled yet
    deleteCalls,      \* session id -> deleteVideo calls issued by the sweep
    creating,         \* bag of creations awaiting createVideo: their filesize
    inflight,         \* bag of chunk uploads awaiting their forwarding PATCH
    lastResp,         \* the response the last handler sent at this instant
    issued,           \* history: id -> the session as created
    patched,          \* history: ids that ever received a PATCH
    completions,      \* history: id -> completion payloads sent
    clock,            \* Date.now() in ms, as the signing functions read it
    calls,            \* the latest calls of the signing and parsing functions
    posts             \* the video-creation POSTs of initiateTusUpload

vars == <<uploadSessions, nextId, now, bunny, bunnyDeleted, pendingDeletes,
          deleteCalls, creating,
          inflight, lastResp, issued, patched, completions,
          clock, calls, posts>>

\* the state of the upload proxy, and the state of the presigned flow and
\* of the functions called on their own
proxy == <<uploadSessions, nextId, now, bunny, bunnyDeleted, pendingDeletes,
           deleteCalls, creating, inflight, lastResp, issued, patched,
           completions>>
aside == <<clock, calls, posts>>


\* ------------------------------------------------------------ responses
\* A signed URL of BunnyService: which resource of which video.
Url(what, videoId) == [what |-> what, videoId |-> videoId]
NoUrl == Url("none", NoId)

\* status, the Upload-Offset header and the body of a response.  a and b
\* are the body's numbers: expected/received of the stale-offset conflict,
\* currentOffset/receivedOffset of the upstream conflict, uploadOffset/
\* filesize of the session summary, Upload-Length (a) of the offset query,
\* expires (a) of the creation, total (a) of the listing.
Resp(op, id, status, kind, offset, a, b) ==
    [op |-> op, id |-> id, status |-> status, kind |-> kind,
     offset |-> offset, a |-> a, b |-> b,
     completed |-> FALSE, videoId |-> NoId,
     videoUrl |-> NoUrl, thumbnailUrl |-> NoUrl, ids |-> {}]

NoResp == Resp("none", NoId, NoStatus, "none", NA, NA, NA)

\* ---------------------------------------------------------- session store
\* the Map operations
MapHas(m, k) == k \in DOMAIN m
MapDelete(m, k) == [x \in DOMAIN m \ {k} |-> m[x]]
MapSet(m, k, v) == [x \in DOMAIN m \cup {k} |-> IF x = k THEN v ELSE m[x]]

\* faulty variant: the expiry instant itself still counts as live
UnexpiredInclusive(session, t) == session.expiresAt >= t

\* session.expiresAt > new Date()
Unexpired(session, t) == session.expiresAt > t

\* FileUploadService.getUploadSession: the session returned (NoId's place
\* is taken by the set of ids: the result is a set with 0 or 1 session)
getUploadSessionResult(m, id, t) ==
    IF MapHas(m, id) /\ Unexpired(m[id], t) THEN {m[id]} ELSE {}

\* faulty variant: the lookup leaves an expired entry where it is
getUploadSessionStoreKeeps(m, id, t) == m

\* ... and the store it leaves (lazy eviction of an expired entry)
getUploadSessionStore(m, id, t) ==
    IF MapHas(m, id) /\ ~Unexpired(m[id], t) THEN MapDelete(m, id) ELSE m

\* faulty variant: an update for an id that is not in the store puts the
\* session back, as it was created, with the new offset
updateUploadOffsetUpserts(m, id, offset) ==
    IF MapHas(m, id) THEN [m EXCEPT ![id].uploadOffset = offset]
    ELSE IF id \in DOMAIN issued
    THEN MapSet(m, id, [issued[id] EXCEPT !.uploadOffset = offset])
    ELSE m

\* faulty variant: the update sets the declared size as well
updateUploadOffsetResizes(m, id, offset) ==
    IF MapHas(m, id)
    THEN [m EXCEPT ![id].uploadOffset = offset, ![id].filesize = offset]
    ELSE m

\* faulty variant: the update pushes the expiry back (a sliding lifetime)
updateUploadOffsetExtends(m, id, offset) ==
    IF MapHas(m, id)
    THEN [m EXCEPT ![id].uploadOffset = offset,
                   ![id].expiresAt = now + SESSION_TIMEOUT]
    ELSE m

\* FileUploadService.updateUploadOffset
updateUploadOffset(m, id, offset) ==
    IF MapHas(m, id)
    THEN [m EXCEPT ![id].uploadOffset = offset]
    ELSE m

\* faulty variant: completion forgets to delete the entry
completeUploadSessionKeeps(m, id) == m

\* faulty variant: completing an id that is not in the store puts the
\* session back
completeUploadSessionToggles(m, id) ==
    IF MapHas(m, id) THEN MapDelete(m, id)
    ELSE IF id \in DOMAIN issued THEN MapSet(m, id, issued[id])
    ELSE m

\* FileUploadService.completeUploadSession
completeUploadSession(m, id) ==
    IF MapHas(m, id) THEN MapDelete(m, id) ELSE m

\* faulty variant: a session is swept only after its expiry instant
ExpiredIdsStrict(m, t) == {id \in DOMAIN m : m[id].expiresAt < t}

\* faulty variant: the sweep finds no session expired
ExpiredIdsNone(m, t) == {}

\* FileUploadService.cleanupExpiredSessions: the ids it removes
ExpiredIds(m, t) == {id \in DOMAIN m : m[id].expiresAt <= t}

\* faulty variant: the sweep stops at the first expired session
SweptStoreStops(m, t) ==
    LET expired == ExpiredIds(m, t)
        first == IF expired = {} THEN {}
                 ELSE {CHOOSE x \in expired : \A y \in expired : x <= y}
    IN [x \in DOMAIN m \ first |-> m[x]]

\* FileUploadService.cleanupExpiredSessions: the store it leaves
SweptStore(m, t) == [x \in DOMAIN m \ ExpiredIds(m, t) |-> m[x]]

\* ------------------------------------------------------------ upstream
\* BunnyService.getTusUploadUrl: the URL names the video it uploads to
getTusUploadUrl(videoId) == videoId

\* BunnyService.getVideoUrl, getThumbnailUrl
getVideoUrl(videoId) == Url("playlist.m3u8", videoId)
getThumbnailUrl(videoId) == Url("thumbnail.jpg", videoId)

\* does the upstream know the object the URL names
BunnyHas(url) == url \in DOMAIN bunny /\ url \notin bunnyDeleted

EmptyMap == [x \in {} |-> 0]

\* ------------------------------------------------------------- inputs
TUS_RESUMABLE_VERSION == "1.0.0"
OFFSET_OCTET_STREAM == "application/offset+octet-stream"

\* A request differs from a well-formed one in at most one header.
OtherVersion == "0.2.2"
OtherContentType == "application/json"

\* POST: Tus-Resumable and Upload-Length
CreateRequests ==
    {[tusResumable |-> TUS_RESUMABLE_VERSION, uploadLength |-> l] :
        l \in {AbsentHdr, GarbageHdr} \cup IntHdrs(0..MaxSize)}
    \cup {[tusResumable |-> TUS_RESUMABLE_VERSION, uploadLength |-> l] :
            l \in PrefixedHdrs({1})}
    \cup {[tusResumable |-> OtherVersion, uploadLength |-> Hdr("int", 1)]}

\* PATCH: Tus-Resumable, Upload-Offset, Content-Type, Content-Length and
\* the body's length.  A declared Content-Length is the body's length;
\* without one (chunked transfer) the body has any length.
PatchRequest(v, o, ct, cl, body) ==
    [tusResumable |-> v, uploadOffset |-> o, contentType |-> ct,
     contentLength |-> cl, body |-> body]

ChunkRequests ==
    {PatchRequest(TUS_RESUMABLE_VERSION, o, ct, Hdr("int", n), n) :
        o \in IntHdrs((-1)..MaxSize),
        ct \in {OFFSET_OCTET_STREAM, OtherContentType},
        n \in 0..MaxLen}
    \cup {PatchRequest(TUS_RESUMABLE_VERSION, o, OFFSET_OCTET_STREAM,
                       AbsentHdr, n) :
            o \in IntHdrs(0..MaxSize), n \in 1..MaxLen}
    \cup {PatchRequest(TUS_RESUMABLE_VERSION, o, OFFSET_OCTET_STREAM,
                       Hdr("int", 0), 0) : o \in {AbsentHdr, GarbageHdr}}
    \cup {PatchRequest(OtherVersion, Hdr("int", 0), OFFSET_OCTET_STREAM,
                       Hdr("int", 0), 0)}

\* what the upstream's video creation answers
CreateVideoOutcomes == {"ok", "noid", "fail"}

\* ------------------------------------------------------- POST /uploads
\* faulty variant: the generator repeats an identifier
uuidv4Repeats(n) == 1

\* uuidv4(): the identifier issued after n others, different from each
uuidv4(n) == n + 1

\* FileUploadService.createUploadSession, after createVideo succeeded
NewSession(id, videoId, filesize, t) ==
    [id |-> id,
     videoId |-> videoId,
     bunnyVideoId |-> videoId,
     filesize |-> filesize,
     uploadOffset |-> 0,
     tusUploadUrl |-> getTusUploadUrl(videoId),
     createdAt |-> t,
     expiresAt |-> t + SESSION_TIMEOUT]

\* faulty variant: the status of createUploadSession's own catch
\* (BadRequestException) reaches the client
createUploadSessionFailure == HTTP_BAD_REQUEST

\* createUpload's catch, around it: InternalServerErrorException
createUploadFailure == HTTP_SERVER_ERROR

Reject(op, id, status, kind) ==
    /\ lastResp' = Resp(op, id, status, kind, NA, NA, NA)

\* the handler up to `await this.bunnyService.createVideo(filename)`,
\* which is called without a timeout
CreateUpload(tusResumable, uploadLength) ==
    /\ lastResp = NoResp
    /\ UNCHANGED aside
    /\ IF tusResumable # TUS_RESUMABLE_VERSION
       THEN /\ Reject("POST", NoId, HTTP_BAD_REQUEST, "version")
            /\ UNCHANGED creating
       ELSE IF Falsy(uploadLength)
       THEN /\ Reject("POST", NoId, HTTP_BAD_REQUEST, "length-required")
            /\ UNCHANGED creating
       ELSE IF IsNaN(uploadLength) \/ ParseInt(uploadLength) <= 0
       THEN /\ Reject("POST", NoId, HTTP_BAD_REQUEST, "invalid-length")
            /\ UNCHANGED creating
       ELSE /\ nextId + BagCardinality(creating) < MaxIds
            /\ creating' = creating (+) SetToBag({ParseInt(uploadLength)})
            /\ UNCHANGED lastResp
    /\ UNCHANGED <<uploadSessions, nextId, now, bunny, bunnyDeleted,
                   pendingDeletes, deleteCalls, inflight, issued, patched,
                   completions>>

\* createVideo settles with outcome `up` and the handler runs to its
\* response
createUploadResume(filesize, up) ==
    /\ lastResp = NoResp
    /\ UNCHANGED aside
    /\ BagIn(filesize, creating)
    /\ creating' = creating (-) SetToBag({filesize})
    /\ IF up = "fail"
       THEN /\ Reject("POST", NoId, createUploadFailure, "create-failed")
            /\ UNCHANGED <<uploadSessions, nextId, bunny, issued>>
       ELSE LET id == uuidv4(nextId)
                videoId == IF up = "ok" THEN id ELSE NoId
                session == NewSession(id, videoId, filesize, now)
            IN /\ nextId' = id
               /\ bunny' = IF up = "ok" THEN MapSet(bunny, videoId, 0)
                                        ELSE bunny
               /\ uploadSessions' = MapSet(uploadSessions, id, session)
               /\ issued' = MapSet(issued, id, session)
               /\ lastResp' = Resp("POST", id, HTTP_CREATED, "created",
                                   NA, session.expiresAt, NA)
    /\ UNCHANGED <<now, bunnyDeleted, pendingDeletes, deleteCalls, inflight,
                   patched, completions>>

\* --------------------------------------------------- HEAD /uploads/:id
getUploadInfo(id) ==
    LET found == getUploadSessionResult(uploadSessions, id, now)
    IN /\ lastResp = NoResp
       /\ UNCHANGED creating
       /\ UNCHANGED aside
       /\ uploadSessions' = getUploadSessionStore(uploadSessions, id, now)
       /\ IF found = {}
          THEN Reject("HEAD", id, HTTP_NOT_FOUND, "not-found")
          ELSE LET session == CHOOSE x \in found : TRUE
               IN lastResp' = Resp("HEAD", id, HTTP_OK, "info",
                                   session.uploadOffset, session.filesize, NA)
       /\ UNCHANGED <<nextId, now, bunny, bunnyDeleted, pendingDeletes,
                      deleteCalls, inflight, issued, patched, completions>>

\* ---------------------------------------------------- GET /uploads/:id
getUploadSession(id) ==
    LET found == getUploadSessionResult(uploadSessions, id, now)
    IN /\ lastResp = NoResp
       /\ UNCHANGED creating
       /\ UNCHANGED aside
       /\ uploadSessions' = getUploadSessionStore(uploadSessions, id, now)
       /\ IF found = {}
          THEN Reject("GET", id, HTTP_NOT_FOUND, "not-found")
          ELSE LET session == CHOOSE x \in found : TRUE
               IN lastResp' =
                    [Resp("GET", id, HTTP_OK, "session", NA,
                          session.uploadOffset, session.filesize)
                     EXCEPT !.videoId = session.videoId]
       /\ UNCHANGED <<nextId, now, bunny, bunnyDeleted, pendingDeletes,
                      deleteCalls, inflight, issued, patched, completions>>

\* -------------------------------------------------------- GET /uploads
listUploadSessions ==
    /\ lastResp = NoResp
    /\ UNCHANGED creating
    /\ UNCHANGED aside
    /\ lastResp' = [Resp("LIST", NoId, HTTP_OK, "list", NA,
                         Cardinality(DOMAIN uploadSessions), NA)
                    EXCEPT !.ids = DOMAIN uploadSessions]
    /\ UNCHANGED <<uploadSessions, nextId, now, bunny, bunnyDeleted,
                   pendingDeletes, deleteCalls, inflight, issued, patched,
                   completions>>

\* -------------------------------------------------- PATCH /uploads/:id
\* A chunk upload suspended at `await axios({method: 'PATCH', ...})`:
\* the handler's locals, and the upstream's answer once it has one
\* (status NoStatus: none yet, or none at all; hdr: its Upload-Offset).
\* The session the handler holds is the store's object: its fields other
\* than uploadOffset never change, and the handler reads only those after
\* the await, so they are read from the session as created.
Request(pc, id, offset, contentLength, body) ==
    [pc |-> pc, id |-> id, offset |-> offset,
     contentLength |-> contentLength, body |-> body,
     status |-> NoStatus, hdr |-> NA]

\* the suspended handlers: two equal requests are two handlers
Suspended == BagToSet(inflight)
Suspend(req) == inflight (+) SetToBag({req})

\* faulty variant: a forwarding call that failed with a 5xx is issued again
ResumeResends(req) ==
    IF req.pc = "answered" /\ req.status >= 500
    THEN (inflight (-) SetToBag({req}))
            (+) SetToBag({[req EXCEPT !.pc = "sent", !.status = NoStatus]})
    ELSE inflight (-) SetToBag({req})

Resume(req) == inflight (-) SetToBag({req})

\* validateStatus: (status) => status < 500
validateStatus(status) == status < 500

\* faulty variant: an exact fill does not complete
IsCompleteStrict(newOffset, filesize) == newOffset > filesize

\* faulty variant: the upload counts as complete one byte early
IsCompleteEarly(newOffset, filesize) == newOffset >= filesize - 1

\* newOffset >= session.filesize
IsComplete(newOffset, filesize) == newOffset >= filesize

\* faulty variant: the comparison the other way round
IsBehindFlipped(offset, uploadOffset) == offset > uploadOffset

\* offset < session.uploadOffset
IsBehind(offset, uploadOffset) == offset < uploadOffset

\* bunnyOffset ? parseInt(bunnyOffset, 10) : offset + contentLength
NewOffset(bunnyOffset, offset, contentLength) ==
    IF bunnyOffset # NA THEN bunnyOffset ELSE offset + contentLength

\* the handler up to the forwarding call
uploadChunk(id, tusResumable, uploadOffset, contentType, contentLength, body) ==
    LET found == getUploadSessionResult(uploadSessions, id, now)
        session == CHOOSE x \in found : TRUE
        offset == ParseInt(uploadOffset)
    IN
    /\ lastResp = NoResp
    /\ UNCHANGED creating
    /\ UNCHANGED aside
    /\ patched' = IF id \in DOMAIN issued THEN patched \cup {id} ELSE patched
    /\ IF tusResumable # TUS_RESUMABLE_VERSION
       THEN /\ Reject("PATCH", id, HTTP_BAD_REQUEST, "version")
            /\ UNCHANGED <<uploadSessions, inflight>>
       ELSE IF found = {}
       THEN /\ Reject("PATCH", id, HTTP_NOT_FOUND, "not-found")
            /\ uploadSessions' =
                   getUploadSessionStore(uploadSessions, id, now)
            /\ UNCHANGED inflight
       ELSE IF Falsy(uploadOffset)
       THEN /\ Reject("PATCH", id, HTTP_BAD_REQUEST, "offset-required")
            /\ UNCHANGED <<uploadSessions, inflight>>
       ELSE IF IsNaN(uploadOffset)
       THEN /\ Reject("PATCH", id, HTTP_BAD_REQUEST, "invalid-offset")
            /\ UNCHANGED <<uploadSessions, inflight>>
       ELSE IF IsBehind(offset, session.uploadOffset)
       THEN /\ lastResp' = Resp("PATCH", id, HTTP_CONFLICT, "behind",
                                session.uploadOffset,
                                session.uploadOffset, offset)
            /\ UNCHANGED <<uploadSessions, inflight>>
       ELSE IF contentType # OFFSET_OCTET_STREAM
       THEN /\ Reject("PATCH", id, HTTP_BAD_REQUEST, "content-type")
            /\ UNCHANGED <<uploadSessions, inflight>>
       ELSE /\ BagCardinality(inflight) < MaxInFlight
            /\ inflight' =
                  Suspend(Request("sent", id, offset,
                                  IF Falsy(contentLength) THEN 0
                                  ELSE ParseInt(contentLength),
                                  body))
            /\ UNCHANGED <<uploadSessions, lastResp>>
    /\ UNCHANGED <<nextId, now, bunny, bunnyDeleted, pendingDeletes,
                   deleteCalls, issued, completions>>

\* The upstream handles the forwarded PATCH (a TUS server: it appends the
\* body when the claimed offset is its own and answers a conflict when it
\* is not), or refuses it (4xx: locked, rate limit, bad request), or fails
\* (5xx), or handles it and its answer does not arrive within the timeout,
\* or handles it and answers with an Upload-Offset that is not its offset.
BunnyFailures == {"none", "4xx", "5xx", "timeout", "misreport"}

\* what parseInt makes of an Upload-Offset header that is not the offset of
\* the upload: any integer, negative ones included
MisreportedOffsets == {-2}

BunnyPatch(req, failure, reported) ==
    LET url == issued[req.id].tusUploadUrl
        accepts == BunnyHas(url) /\ req.offset = bunny[url]
        appended == IF accepts /\ failure \in {"none", "timeout", "misreport"}
                    THEN [bunny EXCEPT ![url] = @ + req.body]
                    ELSE bunny
        status == IF failure = "5xx" THEN HTTP_SERVER_ERROR
                  ELSE IF failure = "4xx" THEN HTTP_BAD_REQUEST
                  ELSE IF failure = "timeout" THEN NoStatus
                  ELSE IF ~BunnyHas(url) THEN HTTP_NOT_FOUND
                  ELSE IF accepts THEN HTTP_NO_CONTENT
                  ELSE HTTP_CONFLICT
        hdr == IF status # HTTP_NO_CONTENT THEN NA
               ELSE IF failure = "misreport" THEN reported
               ELSE appended[url]
    IN /\ lastResp = NoResp
       /\ UNCHANGED creating
       /\ UNCHANGED aside
       /\ req.pc = "sent"
       /\ bunny' = appended
       /\ inflight' = Resume(req) (+)
                       SetToBag({[req EXCEPT !.pc = "answered",
                                             !.status = status,
                                             !.hdr = hdr]})
       /\ UNCHANGED <<uploadSessions, nextId, now, bunnyDeleted,
                      pendingDeletes, deleteCalls, lastResp, issued, patched,
                      completions>>

\* what the re-sync probe (axios.head on the upload URL) can answer
ProbeOutcomes(url) ==
    {NA} \cup (IF BunnyHas(url) THEN {0, bunny[url]} ELSE {})

\* the handler from the forwarding call's outcome on
uploadChunkResume(req) ==
    LET id == req.id
        session == issued[id]
        thrown == req.status = NoStatus \/ ~validateStatus(req.status)
        newOffset == NewOffset(req.hdr, req.offset, req.contentLength)
    IN
    /\ lastResp = NoResp
    /\ UNCHANGED creating
    /\ UNCHANGED aside
    /\ req.pc = "answered"
    /\ inflight' = Resume(req)
    /\ IF ~thrown
       THEN IF IsComplete(newOffset, session.filesize)
            THEN /\ uploadSessions' =
                       completeUploadSession(
                           updateUploadOffset(uploadSessions, id, newOffset),
                           id)
                 /\ lastResp' =
                       [Resp("PATCH", id, HTTP_OK, "completed", newOffset,
                             NA, NA)
                        EXCEPT !.completed = TRUE,
                               !.videoId = session.videoId,
                               !.videoUrl = getVideoUrl(session.bunnyVideoId),
                               !.thumbnailUrl =
                                   getThumbnailUrl(session.bunnyVideoId)]
                 /\ completions' = [completions EXCEPT ![id] = @ + 1]
            ELSE /\ uploadSessions' =
                       updateUploadOffset(uploadSessions, id, newOffset)
                 /\ lastResp' = Resp("PATCH", id, HTTP_NO_CONTENT,
                                     "continue", newOffset, NA, NA)
                 /\ UNCHANGED completions
       ELSE IF req.status = HTTP_CONFLICT
       THEN \E probe \in ProbeOutcomes(session.tusUploadUrl) :
               /\ IF probe = NA
                  THEN /\ Reject("PATCH", id, HTTP_SERVER_ERROR,
                                 "resolve-failed")
                       /\ UNCHANGED uploadSessions
                  ELSE /\ uploadSessions' =
                            updateUploadOffset(uploadSessions, id, probe)
                       /\ lastResp' = Resp("PATCH", id, HTTP_CONFLICT,
                                           "conflict", probe, probe,
                                           req.offset)
               /\ UNCHANGED completions
       ELSE /\ Reject("PATCH", id, HTTP_SERVER_ERROR, "upload-failed")
            /\ UNCHANGED <<uploadSessions, completions>>
    /\ UNCHANGED <<nextId, now, bunny, bunnyDeleted, pendingDeletes,
                   deleteCalls, issued, patched>>

\* ------------------------------------------------------ expiry sweep
\* FileUploadService.cleanupExpiredSessions, run by the hourly timer
cleanupExpiredSessions ==
    LET expired == ExpiredIds(uploadSessions, now)
    IN /\ lastResp = NoResp
       /\ UNCHANGED creating
       /\ UNCHANGED aside
       /\ uploadSessions' = SweptStore(uploadSessions, now)
       /\ deleteCalls' = [x \in Ids |->
                             IF x \in expired THEN deleteCalls[x] + 1
                                              ELSE deleteCalls[x]]
       /\ pendingDeletes' = pendingDeletes \cup
                               {uploadSessions[x].bunnyVideoId : x \in expired}
       /\ UNCHANGED <<nextId, now, bunny, bunnyDeleted, inflight, lastResp,
                      issued, patched, completions>>

\* BunnyService.deleteVideo reaches the upstream: the video is deleted, or
\* the call fails and deleteVideo answers false
BunnyDeleteVideo(videoId, ok) ==
    /\ lastResp = NoResp
    /\ UNCHANGED creating
    /\ UNCHANGED aside
    /\ videoId \in pendingDeletes
    /\ pendingDeletes' = pendingDeletes \ {videoId}
    /\ bunnyDeleted' = IF ok /\ videoId \in DOMAIN bunny
                       THEN bunnyDeleted \cup {videoId}
                       ELSE bunnyDeleted
    /\ UNCHANGED <<uploadSessions, nextId, now, bunny, deleteCalls, inflight,
                   lastResp, issued, patched, completions>>

\* ------------------------------------------------------------- time
\* the clock advances, up to `limit`
Advance(limit) ==
    /\ lastResp = NoResp
    /\ UNCHANGED creating
    /\ UNCHANGED aside
    /\ now < limit
    /\ now' = now + 1
    /\ UNCHANGED <<uploadSessions, nextId, bunny, bunnyDeleted,
                   pendingDeletes, deleteCalls, inflight, lastResp, issued,
                   patched, completions>>

Tick == Advance(MaxTime)

\* ---------------------------------------------------------- responses
\* lastResp is the response a handler has just produced, observed in the
\* state the handler leaves; the client receives it before anything else
\* happens.
Respond ==
    /\ lastResp # NoResp
    /\ UNCHANGED creating
    /\ UNCHANGED aside
    /\ lastResp' = NoResp
    /\ UNCHANGED <<uploadSessions, nextId, now, bunny, bunnyDeleted,
                   pendingDeletes, deleteCalls, inflight, issued, patched,
                   completions>>

\* ------------------------------------------------------------- Init
Init ==
    /\ uploadSessions = EmptyMap
    /\ nextId = 0
    /\ now = 0
    /\ bunny = EmptyMap
    /\ bunnyDeleted = {}
    /\ pendingDeletes = {}
    /\ deleteCalls = [id \in Ids |-> 0]
    /\ creating = EmptyBag
    /\ inflight = EmptyBag
    /\ lastResp = NoResp
    /\ issued = EmptyMap
    /\ patched = {}
    /\ completions = [id \in Ids |-> 0]
    /\ clock = 0
    /\ calls = <<>>
    /\ posts = <<>>

\* ------------------------------------------------------------- Next
\* Spec follows MaxSessions sessions, created or being created, and the
\* requests that address them.
Addressed == 1..MaxSessions

Next ==
    \/ \E r \in CreateRequests :
          /\ CreateUpload(r.tusResumable, r.uploadLength)
          /\ nextId + BagCardinality(creating') <= MaxSessions
    \/ \E filesize \in 1..MaxSize, up \in CreateVideoOutcomes :
          createUploadResume(filesize, up)
    \/ \E id \in Addressed : getUploadInfo(id)
    \/ \E id \in Addressed : getUploadSession(id)
    \/ listUploadSessions
    \/ \E id \in Addressed, r \in ChunkRequests :
          uploadChunk(id, r.tusResumable, r.uploadOffset, r.contentType,
                      r.contentLength, r.body)
    \/ \E req \in Suspended, f \in BunnyFailures :
          \E reported \in (IF f = "misreport" THEN MisreportedOffsets
                                               ELSE {NA}) :
             BunnyPatch(req, f, reported)
    \/ \E req \in Suspended : uploadChunkResume(req)
    \/ cleanupExpiredSessions
    \/ \E v \in Ids \cup {NoId}, ok \in BOOLEAN : BunnyDeleteVideo(v, ok)
    \/ Tick
    \/ Respond

Spec == Init /\ [][Next]_vars

\* =================================================================
\* Properties
\* =================================================================

\* the store's live entry for id, if it has one
Live(id) == id \in DOMAIN uploadSessions /\ uploadSessions[id].expiresAt > now

\* C1: in every reachable state every stored session has
\* 0 <= uploadOffset <= filesize.
C1_OffsetWithinBounds ==
    \A id \in DOMAIN uploadSessions :
        /\ 0 <= uploadSessions[id].uploadOffset
        /\ uploadSessions[id].uploadOffset <= uploadSessions[id].filesize

C3_OffsetNeverDecreases ==
    [][\A id \in DOMAIN uploadSessions \cap DOMAIN uploadSessions' :
          uploadSessions'[id].uploadOffset >= uploadSessions[id].uploadOffset
      ]_vars

\* C4: a chunk upload whose new offset reaches filesize removes the session
\* and answers 200 with completed = true, the session's upstream
\* identifier and both URLs.
C4_CompletionPayload ==
    [][\A req \in Suspended :
          (/\ req.pc = "answered"
           /\ req.status \in 1..499
           /\ (IF req.hdr # NA THEN req.hdr
               ELSE req.offset + req.contentLength)
                  >= issued[req.id].filesize
           /\ uploadChunkResume(req))
          => /\ req.id \notin DOMAIN uploadSessions'
             /\ lastResp'.status = 200
             /\ lastResp'.completed
             /\ lastResp'.videoId = issued[req.id].videoId
             /\ lastResp'.videoUrl # NoUrl
             /\ lastResp'.thumbnailUrl # NoUrl]_vars

\* a completion payload has just been sent
C4_Witness ==
    /\ lastResp.kind = "completed"
    /\ lastResp.offset >= issued[lastResp.id].filesize

\* C5: at most one chunk upload of a session receives the completion
\* payload.
C5_CompletedOnce == \A id \in Ids : completions[id] <= 1

\* C6: once a session has completed, a later GET, HEAD or (admitted)
\* PATCH on its id is answered 404, and a later PATCH forwards nothing.
C6_NotFoundAfterCompletion ==
    [][\A id \in Ids :
          completions[id] >= 1
          => /\ getUploadInfo(id) => lastResp'.status = 404
             /\ getUploadSession(id) => lastResp'.status = 404
             /\ \A r \in ChunkRequests :
                   uploadChunk(id, r.tusResumable, r.uploadOffset,
                               r.contentType, r.contentLength, r.body)
                   => /\ inflight' = inflight
                      /\ bunny' = bunny
                      /\ r.tusResumable = TUS_RESUMABLE_VERSION
                           => lastResp'.status = 404]_vars

\* a PATCH on a completed session has just been answered not-found
C6_Witness ==
    /\ lastResp.op = "PATCH" /\ lastResp.kind = "not-found"
    /\ completions[lastResp.id] >= 1

\* C7: when the upstream answers the forwarded chunk 409, the client is
\* answered 409 with the upstream's current offset and the claimed offset,
\* and that offset is stored.
C7_UpstreamConflictResync ==
    [][\A req \in Suspended :
          (/\ req.pc = "answered"
           /\ req.status = 409
           /\ uploadChunkResume(req))
          => /\ lastResp'.status = 409
             /\ lastResp'.kind = "conflict"
             /\ lastResp'.b = req.offset
             /\ req.id \in DOMAIN uploadSessions'
                  => uploadSessions'[req.id].uploadOffset = lastResp'.a]_vars

\* C8: when the forwarding call fails (no response, 5xx, or an error status
\* other than 409) the client is answered 5xx and the store is unchanged.
C8_ForwardFailureIsServerError ==
    [][\A req \in Suspended :
          (/\ req.pc = "answered"
           /\ req.status \notin {HTTP_NO_CONTENT, HTTP_CONFLICT}
           /\ uploadChunkResume(req))
          => /\ lastResp'.status >= 500
             /\ uploadSessions' = uploadSessions]_vars

\* the bytes the upstream has accepted for a session's upload URL
Accepted(session) ==
    IF session.tusUploadUrl \in DOMAIN bunny
    THEN bunny[session.tusUploadUrl] ELSE 0

\* C9: the recorded offset never exceeds the bytes the upstream has
\* accepted for the session.
C9_NeverOptimistic ==
    \A id \in DOMAIN uploadSessions :
        uploadSessions[id].uploadOffset <= Accepted(uploadSessions[id])

\* C10: a session never uploaded to answers GET and HEAD with offset 0 and
\* its length at every time before expiresAt, and 404 from expiresAt on.
C10_IdleSessionUntilExpiry ==
    (/\ lastResp.op \in {"GET", "HEAD"}
     /\ lastResp.id \in DOMAIN issued
     /\ lastResp.id \notin patched)
    => IF now < issued[lastResp.id].createdAt + SESSION_TIMEOUT
       THEN /\ lastResp.status = 200
            /\ (IF lastResp.op = "HEAD" THEN lastResp.offset
                                         ELSE lastResp.a) = 0
            /\ (IF lastResp.op = "HEAD" THEN lastResp.a
                                         ELSE lastResp.b)
                  = issued[lastResp.id].filesize
       ELSE lastResp.status = 404

\* an idle session has been looked up at its expiry instant or later
C10_Witness ==
    /\ lastResp.op = "HEAD"
    /\ lastResp.id \in DOMAIN issued
    /\ lastResp.id \notin patched
    /\ now >= issued[lastResp.id].expiresAt
    /\ lastResp.status = 404

\* This step is handler `op` answering a request on id.
Answered(op, id) ==
    /\ lastResp = NoResp /\ lastResp' # NoResp
    /\ lastResp'.op = op /\ lastResp'.id = id

\* This step is a chunk upload on id suspending at its forwarding call.
Forwarded(id) ==
    \E r \in BagToSet(inflight') :
        /\ r.id = id /\ r.pc = "sent"
        /\ CopiesIn(r, inflight') > CopiesIn(r, inflight)

\* This step is a chunk upload on id running from its session lookup to
\* its rejection or to its forwarding call.
PatchLookup(id) ==
    \/ Forwarded(id)
    \/ /\ Answered("PATCH", id)
       /\ inflight' = inflight
       /\ lastResp'.kind # "version"

\* C11: a lookup (GET, HEAD, or a PATCH that reaches the lookup) of a stored
\* session at now >= expiresAt is answered 404 and leaves the session
\* absent from the store; at now < expiresAt it finds the session (the
\* answer is not 404, GET and HEAD report it) and leaves it in the store.
C11_LookupHonoursExpiry ==
    [][\A id \in DOMAIN uploadSessions :
          LET session == uploadSessions[id]
          IN (Answered("HEAD", id) \/ Answered("GET", id) \/ PatchLookup(id))
             => IF now >= session.expiresAt
                THEN /\ lastResp'.status = HTTP_NOT_FOUND
                     /\ id \notin DOMAIN uploadSessions'
                ELSE /\ id \in DOMAIN uploadSessions'
                     /\ lastResp' # NoResp => lastResp'.status # HTTP_NOT_FOUND
                     /\ Answered("HEAD", id)
                          => /\ lastResp'.status = HTTP_OK
                             /\ lastResp'.offset = session.uploadOffset
                             /\ lastResp'.a = session.filesize
                     /\ Answered("GET", id)
                          => /\ lastResp'.status = HTTP_OK
                             /\ lastResp'.a = session.uploadOffset
                             /\ lastResp'.b = session.filesize]_vars

\* an expired session that no sweep and no completion removed has been
\* looked up by a PATCH: answered 404 and gone from the store
C11_Witness ==
    /\ lastResp.op = "PATCH" /\ lastResp.status = HTTP_NOT_FOUND
    /\ lastResp.id \in DOMAIN issued
    /\ now >= issued[lastResp.id].expiresAt
    /\ deleteCalls[lastResp.id] = 0
    /\ completions[lastResp.id] = 0
    /\ lastResp.id \notin DOMAIN uploadSessions

\* C12: a list-all response names no session whose expiresAt has passed,
\* and its total is the number of live sessions.
C12_ListLiveOnly ==
    lastResp.op = "LIST"
    => /\ \A id \in lastResp.ids : issued[id].expiresAt > now
       /\ lastResp.a =
             Cardinality({id \in DOMAIN uploadSessions : Live(id)})

\* a create request that passes validation
ValidCreate(r) ==
    /\ r.tusResumable = TUS_RESUMABLE_VERSION
    /\ ~Falsy(r.uploadLength) /\ ~IsNaN(r.uploadLength)
    /\ ParseInt(r.uploadLength) > 0

\* C13: when the upstream's video creation fails, the create request is
\* answered 5xx and the store is as it was.
C13_AllocationFailureIsServerError ==
    [][(lastResp = NoResp /\ now' = now)
       => \A r \in CreateRequests :
            (ValidCreate(r)
             /\ createUploadResume(ParseInt(r.uploadLength), "fail"))
            => /\ lastResp'.status >= 500
               /\ uploadSessions' = uploadSessions
               /\ nextId' = nextId]_vars

\* a create request has just been answered after a failed allocation
C13_Witness ==
    /\ lastResp.op = "POST" /\ lastResp.kind = "create-failed"
    /\ lastResp.status >= 500

\* the header's value is a positive integer
DeclaresPositiveInteger(h) == h.kind = "int" /\ h.val > 0

\* C14: a create request whose version is not 1.0.0, or whose declared
\* length is missing, unparseable or not a positive integer, is rejected,
\* and neither the upstream nor the store changes.
C14_InvalidCreateRejected ==
    [][(lastResp = NoResp /\ now' = now)
       => \A r \in CreateRequests :
            (/\ \/ r.tusResumable # TUS_RESUMABLE_VERSION
                \/ ~DeclaresPositiveInteger(r.uploadLength)
             /\ CreateUpload(r.tusResumable, r.uploadLength))
            => /\ lastResp'.status \in 400..499
               /\ creating' = creating
               /\ uploadSessions' = uploadSessions
               /\ bunny' = bunny]_vars

\* C15: a create request whose Tus-Resumable is not 1.0.0 is answered 412,
\* and one with the right version and a missing or malformed Upload-Length
\* is answered 400.
C15_VersionMismatchIs412 ==
    [][(lastResp = NoResp /\ now' = now)
       => \A r \in CreateRequests :
            CreateUpload(r.tusResumable, r.uploadLength)
            => IF r.tusResumable # TUS_RESUMABLE_VERSION
               THEN lastResp'.status = HTTP_PRECONDITION_FAILED
               ELSE (Falsy(r.uploadLength) \/ IsNaN(r.uploadLength)
                       \/ ParseInt(r.uploadLength) <= 0)
                    => lastResp'.status = HTTP_BAD_REQUEST]_vars

\* C16: an offset query (HEAD) leaves the store as it was, whether the id
\* is live, expired or unknown.
C16_HeadHasNoSideEffect ==
    [][\A id \in Ids :
          getUploadInfo(id) => uploadSessions' = uploadSessions]_vars

\* C17: a chunk upload whose forwarding call resolved with a new offset N
\* below filesize is answered 204 with Upload-Offset N, and before expiry
\* the session is in the store with uploadOffset = N, which is what a HEAD
\* (the lookup of getUploadInfo) then finds.
C17_ContinueRecordsOffset ==
    [][\A req \in Suspended :
          LET session == issued[req.id]
              N == NewOffset(req.hdr, req.offset, req.contentLength)
          IN (/\ req.pc = "answered"
              /\ req.status \in 1..499
              /\ N < session.filesize
              /\ uploadChunkResume(req))
             => /\ lastResp'.status = HTTP_NO_CONTENT
                /\ lastResp'.offset = N
                /\ now < session.expiresAt
                     => /\ req.id \in DOMAIN uploadSessions'
                        /\ uploadSessions'[req.id].uploadOffset = N
                        /\ \E s \in getUploadSessionResult(uploadSessions',
                                                          req.id, now) :
                              s.uploadOffset = N]_vars

\* C18: a chunk upload on a live session whose Content-Type is not
\* application/offset+octet-stream is answered 400 and forwards nothing,
\* whatever offset it claims.
C18_ContentTypeBeforeOffset ==
    [][(lastResp = NoResp /\ now' = now /\ nextId' = nextId)
       => \A id \in DOMAIN uploadSessions, r \in ChunkRequests :
          (/\ Live(id)
           /\ r.tusResumable = TUS_RESUMABLE_VERSION
           /\ r.contentType # OFFSET_OCTET_STREAM
           /\ uploadChunk(id, r.tusResumable, r.uploadOffset, r.contentType,
                          r.contentLength, r.body))
          => /\ lastResp'.status = HTTP_BAD_REQUEST
             /\ inflight' = inflight]_vars

\* --------------------------------------------------------- scheduling
\* a forwarding call settles: the upstream answers, or the 30 s timer of
\* the call fires
Settle ==
    \E sent \in Suspended, f \in BunnyFailures :
       \E reported \in (IF f = "misreport" THEN MisreportedOffsets
                                            ELSE {NA}) :
          BunnyPatch(sent, f, reported)

\* a handler whose forwarding call has settled runs on
Continue == \E req \in Suspended : uploadChunkResume(req)

\* What the runtime guarantees: a response that was written is sent, a
\* pending forwarding call settles (its timeout is set), and a handler
\* whose call has settled runs on, whatever other requests arrive
\* meanwhile (strong fairness: the steps of other requests in between do
\* not cancel the timer or the continuation).  Nothing makes createVideo
\* settle: it has no timeout, and the upstream need not answer.
FairSpec ==
    /\ Spec
    /\ WF_vars(Respond)
    /\ SF_vars(Settle)
    /\ SF_vars(Continue)

\* every creation waiting for createVideo is eventually answered
C19_CreateAnswered ==
    \A filesize \in 1..MaxSize :
       BagIn(filesize, creating) ~> ~BagIn(filesize, creating)

\* while chunk uploads wait for their forwarding calls, one of them is
\* eventually answered
C19_ForwardAnswered ==
    (inflight # EmptyBag) ~> (lastResp.op = "PATCH")

\* C19: every request that involves an upstream call (create, chunk
\* forwarding) eventually receives a response, whether or not the upstream
\* answers.
C19_UpstreamCallsBounded == C19_CreateAnswered /\ C19_ForwardAnswered

\* C20: the sweep removes no session, and asks for the deletion of no
\* upstream object, while a chunk upload on that session is suspended
\* between reading the recorded offset and recording the new one.
C20_SweepExcludesChunkUpload ==
    [][\A id \in DOMAIN uploadSessions :
          (/\ \E req \in Suspended : req.id = id
           /\ cleanupExpiredSessions)
          => /\ id \in DOMAIN uploadSessions'
             /\ deleteCalls'[id] = deleteCalls[id]]_vars

\* C21: every session in the store has a defined upstream identifier
\* (the guid and the videoId of createVideo's answer): a creation whose
\* answer carries none inserts no session.
C21_SessionHasUpstreamId ==
    \A id \in DOMAIN uploadSessions :
        /\ uploadSessions[id].videoId # NoId
        /\ uploadSessions[id].bunnyVideoId # NoId

\* C27: when the upstream answers the forwarded chunk 409, the handler
\* either re-syncs (its probe answered: the client is answered 409) or,
\* the probe having failed, answers 5xx and leaves the recorded offsets as
\* they were.
C27_FailedProbeIsServerError ==
    [][\A req \in Suspended :
          (/\ req.pc = "answered"
           /\ req.status = HTTP_CONFLICT
           /\ uploadChunkResume(req)
           /\ lastResp'.status # HTTP_CONFLICT)
          => /\ lastResp'.status >= 500
             /\ uploadSessions' = uploadSessions]_vars

\* the forwarding PATCHes that have been issued and not yet handled
SentCount(bag) ==
    LET sent == {r \in BagToSet(bag) : r.pc = "sent"}
        RECURSIVE Sum(_)
        Sum(S) == IF S = {} THEN 0
                  ELSE LET r == CHOOSE x \in S : TRUE
                       IN CopiesIn(r, bag) + Sum(S \ {r})
    IN Sum(sent)

\* C28: a forwarding PATCH is issued only by a chunk upload that has just
\* arrived, one per request: a step issues at most one, the request that
\* issued it is then suspended at it, and no handler that has its answer
\* (or its failure) issues another.
C28_ForwardedOnce ==
    [][/\ SentCount(inflight') <= SentCount(inflight) + 1
       /\ SentCount(inflight') > SentCount(inflight)
            => /\ BagCardinality(inflight') = BagCardinality(inflight) + 1
               /\ lastResp' = NoResp
       /\ \A req \in Suspended :
             (req.pc = "answered" /\ uploadChunkResume(req))
             => /\ SentCount(inflight') = SentCount(inflight)
                /\ bunny' = bunny]_vars

\* a forwarding call has failed and its handler has answered 500 without
\* another call
C28_Witness ==
    /\ lastResp.op = "PATCH" /\ lastResp.kind = "upload-failed"
    /\ SentCount(inflight) = 0

\* C29: the new offset of a forwarded chunk (the Upload-Offset answered,
\* and the offset recorded when the session stays in the store) is the
\* offset the upstream's response reports when it reports one, and
\* otherwise the claimed offset plus the length of the body that was sent.
C29_NewOffsetFromBytesSent ==
    [][\A req \in Suspended :
          LET expected == IF req.hdr # NA THEN req.hdr
                          ELSE req.offset + req.body
          IN (/\ req.pc = "answered"
              /\ req.status \in 1..499
              /\ uploadChunkResume(req))
             => /\ lastResp'.offset = expected
                /\ req.id \in DOMAIN uploadSessions'
                     => uploadSessions'[req.id].uploadOffset = expected]_vars

\* C30: a sweep run at time now leaves no session with expiresAt <= now in
\* the store and every session with expiresAt > now as it was (whatever
\* the state it runs in, a sweep that finds nothing to remove included),
\* and issues exactly one upstream delete for each session it removes and
\* none for the others.
C30_SweepRemovesExactlyExpired ==
    /\ [](LET after == SweptStore(uploadSessions, now)
          IN /\ \A id \in DOMAIN after : after[id].expiresAt > now
             /\ \A id \in DOMAIN uploadSessions :
                   uploadSessions[id].expiresAt > now
                   => id \in DOMAIN after /\ after[id] = uploadSessions[id])
    /\ [][cleanupExpiredSessions
          => /\ uploadSessions' = SweptStore(uploadSessions, now)
             /\ \A id \in Ids :
                   deleteCalls'[id] =
                      deleteCalls[id] +
                      (IF id \in DOMAIN uploadSessions
                             \ DOMAIN uploadSessions'
                       THEN 1 ELSE 0)
             /\ \A id \in DOMAIN uploadSessions \ DOMAIN uploadSessions' :
                   uploadSessions[id].bunnyVideoId \in pendingDeletes']_vars

\* a sweep at a session's expiry instant has removed it and asked once for
\* the deletion of its upstream object
C30_Witness ==
    \E id \in DOMAIN issued :
       /\ now = issued[id].expiresAt
       /\ id \notin DOMAIN uploadSessions
       /\ deleteCalls[id] = 1
       /\ issued[id].bunnyVideoId \in pendingDeletes

\* =================================================================
\* Signatures and signed URLs
\* (FileUploadService.generateBunnySignature, BunnyService.getVideoUrl,
\* BunnyService.getThumbnailUrl, called on their own)
\* =================================================================
MaxClock == 2000      \* the ms clock stops here
ClockStep == 500      \* ms between two readings of the clock

URL_VALIDITY == 3600  \* seconds: "Link valid for 1 hour"

\* A string is the sequence of its characters.
Digit == <<"0", "1", "2", "3", "4", "5", "6", "7", "8", "9">>

\* `${n}` for a non-negative integer n
RECURSIVE NumberToString(_)
NumberToString(n) ==
    IF n < 10 THEN <<Digit[n + 1]>>
    ELSE NumberToString(n \div 10) \o <<Digit[(n % 10) + 1]>>

\* crypto.createHash('sha256').update(s).digest('hex'), taken as free of
\* collisions: two digests are equal exactly when the strings hashed are
Sha256(s) == [sha256 |-> s]

\* faulty variant: the expiry is left out of the signed string
dataToSignWithoutExpiry(libraryId, apiKey, expirationTime, videoId) ==
    libraryId \o apiKey \o videoId

\* `${libraryId}${apiKey}${expirationTime}${videoId}`
dataToSign(libraryId, apiKey, expirationTime, videoId) ==
    libraryId \o apiKey \o NumberToString(expirationTime) \o videoId

generateBunnySignature(libraryId, apiKey, expirationTime, videoId) ==
    Sha256(dataToSign(libraryId, apiKey, expirationTime, videoId))

\* faulty variant: the validity window counted from time 0, not from the
\* call
UrlExpiresFromStart(t) == URL_VALIDITY

\* Math.floor(Date.now() / 1000) + 3600
UrlExpires(t) == (t \div 1000) + URL_VALIDITY

\* `${cdnUrl}/${videoId}/<what>?token=${hash}&expires=${expires}`, with
\* hash the digest of `${securityKey}${videoId}${expires}`
SignedUrl(what, securityKey, videoId, t) ==
    LET expires == UrlExpires(t)
    IN [what |-> what, videoId |-> videoId,
        token |-> Sha256(securityKey \o videoId \o NumberToString(expires)),
        expires |-> expires]

\* getVideoUrl and getThumbnailUrl of a BunnyService configured with
\* securityKey, called when Date.now() is t
getVideoUrlAt(securityKey, videoId, t) ==
    SignedUrl("playlist.m3u8", securityKey, videoId, t)
getThumbnailUrlAt(securityKey, videoId, t) ==
    SignedUrl("thumbnail.jpg", securityKey, videoId, t)

\* the inputs: identifiers and keys that are prefixes of one another and
\* share characters with the digits, and expiration times of one and two
\* digits
LibraryIds == {<<"7">>, <<"7", "1">>}
ApiKeys == {<<"k">>, <<"1", "k">>}
SecurityKeys == {<<"s">>, <<"s", "0">>}
VideoIds == {<<"v">>, <<"0", "v">>}
ExpirationTimes == {1, 10, 11}

\* a call that has returned: the function, its arguments (for the URL
\* functions: the service's key and the video) and what it returned
Call(fn, args, ret) == [fn |-> fn, args |-> args, ret |-> ret]

\* calls keeps the two latest calls
Push(c) == IF Len(calls) < 2 THEN Append(calls, c) ELSE <<calls[2], c>>

GenerateBunnySignature(libraryId, apiKey, expirationTime, videoId) ==
    /\ calls' = Push(Call("generateBunnySignature",
                          <<libraryId, apiKey, expirationTime, videoId>>,
                          generateBunnySignature(libraryId, apiKey,
                                                 expirationTime, videoId)))
    /\ UNCHANGED <<clock, posts>>
    /\ UNCHANGED proxy

GetVideoUrl(securityKey, videoId) ==
    /\ calls' = Push(Call("getVideoUrl", <<securityKey, videoId>>,
                          getVideoUrlAt(securityKey, videoId, clock)))
    /\ UNCHANGED <<clock, posts>>
    /\ UNCHANGED proxy

GetThumbnailUrl(securityKey, videoId) ==
    /\ calls' = Push(Call("getThumbnailUrl", <<securityKey, videoId>>,
                          getThumbnailUrlAt(securityKey, videoId, clock)))
    /\ UNCHANGED <<clock, posts>>
    /\ UNCHANGED proxy

\* the clock advances
ClockTick ==
    /\ clock + ClockStep <= MaxClock
    /\ clock' = clock + ClockStep
    /\ UNCHANGED <<calls, posts>>
    /\ UNCHANGED proxy

SignNext ==
    \/ \E libraryId \in LibraryIds, apiKey \in ApiKeys,
          expirationTime \in ExpirationTimes, videoId \in VideoIds :
          GenerateBunnySignature(libraryId, apiKey, expirationTime, videoId)
    \/ \E securityKey \in SecurityKeys, videoId \in VideoIds :
          GetVideoUrl(securityKey, videoId)
    \/ \E securityKey \in SecurityKeys, videoId \in VideoIds :
          GetThumbnailUrl(securityKey, videoId)
    \/ ClockTick

SignSpec == Init /\ [][SignNext]_vars

\* the inputs of a call's hash, in the order they are concatenated, and
\* the digest the call returned
HashInputs(c) ==
    IF c.fn = "generateBunnySignature" THEN c.args
    ELSE <<c.args[1], c.args[2], c.ret.expires>>
Digest(c) == IF c.fn = "generateBunnySignature" THEN c.ret ELSE c.ret.token
Hashed(c) ==
    IF c.fn = "generateBunnySignature"
    THEN c.args[1] \o c.args[2] \o NumberToString(c.args[3]) \o c.args[4]
    ELSE c.args[1] \o c.args[2] \o NumberToString(c.ret.expires)

\* two calls hash the same kind of input
SameSignature(c, d) ==
    (c.fn = "generateBunnySignature") = (d.fn = "generateBunnySignature")

\* the positions where two calls' inputs differ
Differing(c, d) ==
    {i \in DOMAIN HashInputs(c) : HashInputs(c)[i] # HashInputs(d)[i]}

\* C22: a digest is the hash of the concatenation of the call's inputs in
\* their fixed order; two calls with equal inputs return equal digests,
\* and two calls whose inputs differ in exactly one place return different
\* digests.
C22_SignatureDeterministicSensitive ==
    /\ \A i \in DOMAIN calls : Digest(calls[i]) = Sha256(Hashed(calls[i]))
    /\ (Len(calls) = 2 /\ SameSignature(calls[1], calls[2]))
       => /\ Differing(calls[1], calls[2]) = {}
               => Digest(calls[1]) = Digest(calls[2])
          /\ Cardinality(Differing(calls[1], calls[2])) = 1
               => Digest(calls[1]) # Digest(calls[2])

\* two signatures have been generated from inputs that differ only in the
\* expiration time, one of whose digits the video id of other calls
\* begins with
C22_Witness ==
    /\ Len(calls) = 2
    /\ calls[1].fn = "generateBunnySignature"
    /\ calls[2].fn = "generateBunnySignature"
    /\ Differing(calls[1], calls[2]) = {3}
    /\ calls[1].ret # calls[2].ret

\* C23: a playback or thumbnail URL carries expires = the second of its
\* generation + 3600, whatever was generated before, and its token is the
\* digest of key, video and that same expires value.
C23_UrlSignedAfresh ==
    [][\A securityKey \in SecurityKeys, videoId \in VideoIds :
          (GetVideoUrl(securityKey, videoId)
              \/ GetThumbnailUrl(securityKey, videoId))
          => LET url == calls'[Len(calls')].ret
             IN /\ url.expires = (clock \div 1000) + 3600
                /\ url.token =
                      Sha256(securityKey \o videoId \o NumberToString(url.expires))
                /\ url.videoId = videoId]_vars

\* the URL of one video has been generated twice, a second or more apart:
\* the second URL expires later than the first
C23_Witness ==
    /\ Len(calls) = 2
    /\ calls[1].fn = "getVideoUrl" /\ calls[2].fn = "getVideoUrl"
    /\ calls[1].args = calls[2].args
    /\ calls[2].ret.expires > calls[1].ret.expires
    /\ calls[2].ret.expires = (clock \div 1000) + 3600

\* =================================================================
\* The presigned initiation flow (FileUploadService.initiateTusUpload)
\* =================================================================
MaxPosts == 2         \* initiations ever started

\* the service's configuration
bunnyStreamLibraryId == <<"7">>
bunnyStreamApiKey == <<"k">>
bunnyTusUploadEndpoint == <<"e">>
bunnyAuthSignatureExpiresInSeconds == 3600

\* undefined, where a string is expected
Undefined == <<"undefined">>

\* !s for a string or undefined
Truthy(s) == s # Undefined /\ s # <<>>

Filenames == {<<"f">>}
CollectionIds == {Undefined, <<>>, <<"c">>}

\* createVideoBody: the keys it has and their values
createVideoBody(filename, fileSize, collectionId) ==
    [key \in {"title"}
             \cup (IF Truthy(collectionId) THEN {"collectionId"} ELSE {})
       |-> IF key = "title" THEN filename ELSE collectionId]

\* what the upstream makes of the POST: 200 with data.guid, 200 without
\* (or with an empty one), another status (validateStatus: status === 200
\* makes it an AxiosError), no response (AxiosError), or an error that is
\* no AxiosError
Answer(kind, guid) == [kind |-> kind, guid |-> guid]
PostAnswers ==
    {Answer("200", g) : g \in VideoIds \cup {Undefined, <<>>}}
    \cup {Answer(k, Undefined) : k \in {"status", "network", "other"}}

\* faulty variant: the identifier is not looked at
MissingVideoIdNever(videoId) == FALSE

\* !videoId
MissingVideoId(videoId) == ~Truthy(videoId)

\* what initiateTusUpload gives its caller: the result, or the exception
Returned(videoId, t) ==
    LET authorizationExpire ==
            (t \div 1000) + bunnyAuthSignatureExpiresInSeconds
    IN [kind |-> "returned",
        endpoint |-> bunnyTusUploadEndpoint,
        authorizationSignature |->
            generateBunnySignature(bunnyStreamLibraryId, bunnyStreamApiKey,
                                   authorizationExpire, videoId),
        authorizationExpire |-> authorizationExpire,
        videoId |-> videoId,
        libraryId |-> bunnyStreamLibraryId]
Thrown(status) == [kind |-> "thrown", status |-> status]

\* the handler up to `await firstValueFrom(this.httpService.post(...))`
initiateTusUpload(filename, fileSize, collectionId) ==
    /\ Len(posts) < MaxPosts
    /\ posts' = Append(posts,
                       [args |-> <<filename, fileSize, collectionId>>,
                        body |-> createVideoBody(filename, fileSize,
                                                 collectionId),
                        pc |-> "sent"])
    /\ UNCHANGED <<clock, calls>>
    /\ UNCHANGED proxy

\* the POST settles and the handler runs to its return or its throw
initiateTusUploadResume(i, answer) ==
    /\ i \in DOMAIN posts
    /\ posts[i].pc = "sent"
    /\ posts' = [posts EXCEPT ![i].pc = "answered"]
    /\ calls' =
          Push(Call("initiateTusUpload", posts[i].args,
                    IF answer.kind = "200" /\ ~MissingVideoId(answer.guid)
                    THEN Returned(answer.guid, clock)
                    ELSE Thrown(HTTP_SERVER_ERROR)))
    /\ UNCHANGED clock
    /\ UNCHANGED proxy

InitiateNext ==
    \/ \E filename \in Filenames, fileSize \in 1..MaxSize,
          collectionId \in CollectionIds :
          initiateTusUpload(filename, fileSize, collectionId)
    \/ \E i \in 1..MaxPosts, answer \in PostAnswers :
          initiateTusUploadResume(i, answer)
    \/ ClockTick

InitiateSpec == Init /\ [][InitiateNext]_vars

\* C24: an initiation whose POST fails in any way (200 without a video
\* id, another status, no response, any other error) throws an
\* internal-server-error and returns no result; a result is returned only
\* for a 200 with a video id, and carries that id.
C24_InitiationFailureIsServerError ==
    [][\A i \in DOMAIN posts, answer \in PostAnswers :
          initiateTusUploadResume(i, answer)
          => LET ret == calls'[Len(calls')].ret
             IN IF answer.kind = "200" /\ answer.guid \in VideoIds
                THEN /\ ret.kind = "returned"
                     /\ ret.videoId = answer.guid
                ELSE ret = [kind |-> "thrown", status |-> 500]]_vars

\* an initiation answered 200 without an identifier has thrown, after one
\* that returned a result
C24_Witness ==
    /\ Len(calls) = 2
    /\ calls[1].ret.kind = "returned"
    /\ calls[2].ret.kind = "thrown"
    /\ calls[2].ret.status = 500

\* C25: an initiation issues one video-creation POST, whose body carries
\* the title, the collectionId when one is given, and the declared file
\* size; the rest of the flow issues none.
C25_CreationPostBody ==
    [][/\ \A filename \in Filenames, fileSize \in 1..MaxSize,
             collectionId \in CollectionIds :
             initiateTusUpload(filename, fileSize, collectionId)
             => /\ Len(posts') = Len(posts) + 1
                /\ LET body == posts'[Len(posts')].body
                   IN /\ body["title"] = filename
                      /\ collectionId \notin {Undefined, <<>>}
                           => /\ "collectionId" \in DOMAIN body
                              /\ body["collectionId"] = collectionId
                      /\ "size" \in DOMAIN body
                      /\ body["size"] = fileSize
       /\ \A i \in DOMAIN posts, answer \in PostAnswers :
             initiateTusUploadResume(i, answer)
             => Len(posts') = Len(posts)]_vars

\* =================================================================
\* Upload-Metadata parsing (FileUploadController.parseUploadMetadata)
\* =================================================================
MaxPairs == 2         \* pairs in an Upload-Metadata header

\* An Upload-Metadata header is given by its comma-separated pairs, and a
\* pair by the tokens `pair.trim().split(' ')` makes of it: one token for
\* a pair without a space (the empty token for an empty pair), an empty
\* token between two adjacent spaces.
\*   "name YQ=="  "name Yg=="  "k YQ=="     well-formed
\*   "k"          no value
\*   ""           nothing between two commas
\*   "k  YQ=="    two spaces
\*   "name !"     a value that is not base64
\*   "k Yg== x"   a third token
Pairs ==
    {<<"name", "YQ==">>, <<"name", "Yg==">>, <<"k", "YQ==">>,
     <<"k">>, <<"">>, <<"k", "", "YQ==">>, <<"name", "!">>,
     <<"k", "Yg==", "x">>}

RECURSIVE SeqsUpTo(_, _)
SeqsUpTo(S, n) ==
    IF n = 0 THEN {<<>>}
    ELSE LET shorter == SeqsUpTo(S, n - 1)
         IN shorter \cup {Append(s, x) : s \in shorter, x \in S}

\* the headers: absent (undefined), or up to MaxPairs pairs (none: the
\* empty string)
NoHeader == <<<<"undefined">>>>
MetadataHeaders == {NoHeader} \cup (SeqsUpTo(Pairs, MaxPairs) \ {<<>>})
                      \cup {<<>>}

\* Buffer.from(encodedValue, 'base64').toString('utf-8'): characters that
\* are not base64 ("!") are passed over, a lone character ("x") is no
\* byte, and nothing is thrown
Base64Decode(encodedValue) ==
    CASE encodedValue = "YQ==" -> "a"
      [] encodedValue = "Yg==" -> "b"
      [] OTHER -> ""

\* the base64 alphabet, padded to a multiple of four characters
IsBase64(encodedValue) == encodedValue \in {"YQ==", "Yg=="}

\* const [key, encodedValue] = pair.trim().split(' ');
\* if (key && encodedValue) metadata[key] = ...
RECURSIVE ParsePairs(_, _)
ParsePairs(pairs, metadata) ==
    IF pairs = <<>> THEN metadata
    ELSE LET pair == Head(pairs)
             key == pair[1]
             hasValue == Len(pair) >= 2 /\ pair[2] # ""
         IN ParsePairs(Tail(pairs),
                       IF key # "" /\ hasValue
                       THEN MapSet(metadata, key, Base64Decode(pair[2]))
                       ELSE metadata)

parseUploadMetadata(uploadMetadata) ==
    LET metadata == IF uploadMetadata = NoHeader THEN EmptyMap
                    ELSE ParsePairs(uploadMetadata, EmptyMap)
    IN [metadata |-> metadata,
        filename |-> IF "name" \in DOMAIN metadata /\ metadata["name"] # ""
                     THEN metadata["name"] ELSE "untitled"]

ParseUploadMetadata(uploadMetadata) ==
    /\ calls' = Push(Call("parseUploadMetadata", <<uploadMetadata>>,
                          parseUploadMetadata(uploadMetadata)))
    /\ UNCHANGED <<clock, posts>>
    /\ UNCHANGED proxy

MetadataNext ==
    \E uploadMetadata \in MetadataHeaders :
       ParseUploadMetadata(uploadMetadata)

MetadataSpec == Init /\ [][MetadataNext]_vars

\* a 'key base64value' pair: a key, one space, a base64 value
WellFormedPair(pair) ==
    Len(pair) = 2 /\ pair[1] # "" /\ IsBase64(pair[2])

\* the entries of a header's well-formed pairs (the later of two pairs
\* with one key)
RECURSIVE WellFormedEntries(_, _)
WellFormedEntries(pairs, metadata) ==
    IF pairs = <<>> THEN metadata
    ELSE LET pair == Head(pairs)
         IN WellFormedEntries(
                Tail(pairs),
                IF WellFormedPair(pair)
                THEN MapSet(metadata, pair[1],
                            IF pair[2] = "YQ==" THEN "a" ELSE "b")
                ELSE metadata)

\* C26: parsing a header returns the entries of its well-formed pairs and
\* nothing for the malformed ones, and as filename the value of the name
\* key when there is one and 'untitled' when there is none.
C26_MetadataSkipsMalformed ==
    \A i \in DOMAIN calls :
       calls[i].fn = "parseUploadMetadata"
       => LET header == calls[i].args[1]
              expected == IF header = NoHeader THEN EmptyMap
                          ELSE WellFormedEntries(header, EmptyMap)
          IN /\ calls[i].ret.metadata = expected
             /\ calls[i].ret.filename =
                   IF "name" \in DOMAIN expected THEN expected["name"]
                   ELSE "untitled"

\* =================================================================
\* Properties of the registry's operations
\* =================================================================

\* C32: updateUploadOffset for an id that is not in the store leaves the
\* store as it is, whatever the offset; a chunk upload whose session was
\* completed or removed while its forwarding call was pending leaves the
\* store as it is and is not answered with an error of the update.
C32_UpdateAbsentIsNoOp ==
    /\ [](\A id \in Ids \ DOMAIN uploadSessions, offset \in (-2)..MaxSize :
             updateUploadOffset(uploadSessions, id, offset) = uploadSessions)
    /\ [][\A req \in Suspended :
             (/\ req.pc = "answered"
              /\ req.status \in 1..499
              /\ req.id \notin DOMAIN uploadSessions
              /\ uploadChunkResume(req))
             => /\ uploadSessions' = uploadSessions
                /\ lastResp'.status \in {HTTP_OK, HTTP_NO_CONTENT}]_vars

\* a chunk upload has recorded its offset for a session that was no
\* longer in the store, and the session is still not there
C32_Witness ==
    /\ lastResp.op = "PATCH" /\ lastResp.kind = "continue"
    /\ lastResp.id \in DOMAIN issued
    /\ lastResp.id \notin DOMAIN uploadSessions

\* C33: completing an id twice leaves the store that completing it once
\* leaves, which has no entry for the id; completing an id that is not in
\* the store leaves the store as it is; and a chunk upload that completes
\* a session already completed leaves the store as it is.
C33_CompleteIdempotent ==
    /\ [](\A id \in Ids :
             LET once == completeUploadSession(uploadSessions, id)
             IN /\ completeUploadSession(once, id) = once
                /\ id \notin DOMAIN once
                /\ id \notin DOMAIN uploadSessions => once = uploadSessions)
    /\ [][\A req \in Suspended :
             (/\ req.pc = "answered"
              /\ completions[req.id] >= 1
              /\ uploadChunkResume(req))
             => uploadSessions' = uploadSessions]_vars

\* a session has been completed a second time, and is absent
C33_Witness ==
    \E id \in Ids :
       /\ completions[id] = 2
       /\ lastResp.kind = "completed" /\ lastResp.id = id
       /\ id \notin DOMAIN uploadSessions

\* C34: a stored session has the filesize and the upstream upload URL it
\* was created with, and no step changes either.
C34_SizeAndUrlImmutable ==
    /\ [](\A id \in DOMAIN uploadSessions :
             /\ uploadSessions[id].filesize = issued[id].filesize
             /\ uploadSessions[id].tusUploadUrl = issued[id].tusUploadUrl)
    /\ [][\A id \in DOMAIN uploadSessions \cap DOMAIN uploadSessions' :
             /\ uploadSessions'[id].filesize = uploadSessions[id].filesize
             /\ uploadSessions'[id].tusUploadUrl =
                   uploadSessions[id].tusUploadUrl]_vars

\* a session of size 2 has had an offset recorded that is not its size,
\* and still has its size and URL
C34_Witness ==
    \E id \in DOMAIN uploadSessions :
       /\ uploadSessions[id].uploadOffset \notin {0, uploadSessions[id].filesize}
       /\ uploadSessions[id].filesize = 2
       /\ uploadSessions[id].tusUploadUrl = issued[id].tusUploadUrl

\* C39: a stored session's expiresAt is its creation time plus the session
\* lifetime, as set when it was created, and no step changes it or the
\* creation time.
C39_ExpiryFixedAtCreation ==
    /\ [](\A id \in DOMAIN uploadSessions :
             /\ uploadSessions[id].expiresAt =
                   uploadSessions[id].createdAt + SESSION_TIMEOUT
             /\ uploadSessions[id].expiresAt = issued[id].expiresAt
             /\ uploadSessions[id].createdAt = issued[id].createdAt)
    /\ [][/\ \A id \in DOMAIN uploadSessions' \ DOMAIN uploadSessions :
                uploadSessions'[id].createdAt = now
          /\ \A id \in DOMAIN uploadSessions \cap DOMAIN uploadSessions' :
                uploadSessions'[id].expiresAt = uploadSessions[id].expiresAt
         ]_vars

\* a session created at time 0 has had an offset recorded at time 1 (past
\* its expiry, by a chunk forwarded before) and keeps its expiry
C39_Witness ==
    \E id \in DOMAIN uploadSessions :
       /\ lastResp.op = "PATCH" /\ lastResp.kind = "continue"
       /\ lastResp.id = id
       /\ now > uploadSessions[id].createdAt
       /\ uploadSessions[id].expiresAt = issued[id].createdAt + SESSION_TIMEOUT

\* C36: a completion payload is sent for a session only when the upstream
\* has accepted at least filesize bytes for the session's upload URL.
C36_CompletionBackedByUpstream ==
    (lastResp.op = "PATCH" /\ lastResp.completed)
    => Accepted(issued[lastResp.id]) >= issued[lastResp.id].filesize

\* this step removes session id because a chunk upload completed it at an
\* offset that reaches its size
RemovedByCompletion(id) ==
    /\ Answered("PATCH", id)
    /\ lastResp'.kind = "completed"
    /\ lastResp'.offset >= uploadSessions[id].filesize

\* C37: a session leaves the store only in a step at or after its
\* expiresAt (lazy eviction, sweep), or in the completion of a chunk
\* upload whose new offset is at least its filesize.
C37_RemovedOnlyCompleteOrExpired ==
    [][\A id \in DOMAIN uploadSessions \ DOMAIN uploadSessions' :
          \/ now >= uploadSessions[id].expiresAt
          \/ RemovedByCompletion(id)]_vars

\* an unexpired session has been removed by a completion
C37_Witness ==
    /\ lastResp.op = "PATCH" /\ lastResp.kind = "completed"
    /\ lastResp.id \notin DOMAIN uploadSessions
    /\ now < issued[lastResp.id].expiresAt
    /\ completions[lastResp.id] = 1

\* C38: a step that removes an unfinished session at or after its
\* expiresAt (the sweep, or the lazy eviction of a lookup) issues a delete
\* of the session's upstream object.
C38_ExpiredRemovalDeletesUpstream ==
    [][\A id \in DOMAIN uploadSessions \ DOMAIN uploadSessions' :
          (now >= uploadSessions[id].expiresAt /\ ~RemovedByCompletion(id))
          => /\ deleteCalls'[id] > deleteCalls[id]
             /\ uploadSessions[id].bunnyVideoId \in pendingDeletes']_vars


\* =================================================================
\* The registry with several sessions
\* =================================================================
\* RegistrySpec follows every identifier of Ids through creation, chunk
\* uploads, expiry and the sweep.  To keep several sessions within reach
\* it forwards one well-formed chunk at a time, and the upstream either
\* accepts the chunk or fails.  Sessions are created up to MaxTime; the
\* clock runs on until the last of them has expired.

\* PATCH requests that pass every check uploadChunk makes of its headers
WellFormedChunks ==
    {PatchRequest(TUS_RESUMABLE_VERSION, o, OFFSET_OCTET_STREAM,
                  Hdr("int", n), n) :
        o \in IntHdrs(0..MaxSize), n \in 1..MaxLen}

RegistryFailures == {"none", "5xx"}

\* the expiry of a session created at MaxTime
LastExpiry == MaxTime + SESSION_TIMEOUT

RegistryNext ==
    \/ \E r \in CreateRequests :
          /\ now <= MaxTime
          /\ CreateUpload(r.tusResumable, r.uploadLength)
    \/ \E filesize \in 1..MaxSize, up \in CreateVideoOutcomes :
          /\ now <= MaxTime
          /\ createUploadResume(filesize, up)
    \/ \E id \in Ids : getUploadInfo(id)
    \/ \E id \in Ids : getUploadSession(id)
    \/ listUploadSessions
    \/ \E id \in Ids, r \in WellFormedChunks :
          /\ uploadChunk(id, r.tusResumable, r.uploadOffset, r.contentType,
                         r.contentLength, r.body)
          /\ BagCardinality(inflight') <= 1
    \/ \E req \in Suspended, f \in RegistryFailures : BunnyPatch(req, f, NA)
    \/ \E req \in Suspended : uploadChunkResume(req)
    \/ cleanupExpiredSessions
    \/ \E v \in Ids \cup {NoId}, ok \in BOOLEAN : BunnyDeleteVideo(v, ok)
    \/ Advance(LastExpiry)
    \/ Respond

RegistrySpec == Init /\ [][RegistryNext]_vars


\* C31: a failure of a delete issued by the sweep changes nothing but the
\* pending call (no response, no session, no request is touched by it);
\* the sweep removes every expired session and issues a delete for each
\* whatever became of earlier deletes; a session the sweep has issued a
\* delete for is not in the store.
C31_DeleteFailureSwallowed ==
    /\ [](\A id \in Ids :
             deleteCalls[id] >= 1 => id \notin DOMAIN uploadSessions)
    /\ [][(pendingDeletes' # pendingDeletes
           /\ pendingDeletes' \subseteq pendingDeletes)
          => /\ uploadSessions' = uploadSessions
             /\ lastResp' = lastResp
             /\ deleteCalls' = deleteCalls
             /\ inflight' = inflight
             /\ creating' = creating]_vars
    /\ [][deleteCalls' # deleteCalls
          => \A id \in ExpiredIds(uploadSessions, now) :
                /\ id \notin DOMAIN uploadSessions'
                /\ deleteCalls'[id] = deleteCalls[id] + 1
                /\ uploadSessions[id].bunnyVideoId \in pendingDeletes']_vars

\* two sessions with one expiry have been swept, and the delete of an
\* upstream object of theirs has failed: the object is still there
C31_Witness ==
    /\ \A id \in Ids : deleteCalls[id] = 1
    /\ issued[1].expiresAt = issued[2].expiresAt
    /\ uploadSessions = EmptyMap
    /\ pendingDeletes = {}
    /\ \E id \in Ids : /\ issued[id].bunnyVideoId \in DOMAIN bunny
                       /\ issued[id].bunnyVideoId \notin bunnyDeleted

\* C35: the store holds one session per id, under its own id; every
\* create answers with an id never issued before; an id enters the store
\* only when it is issued, so a removed id never comes back.
C35_IdsNeverReused ==
    /\ [](\A id \in DOMAIN uploadSessions :
             uploadSessions[id].id = id /\ id \in DOMAIN issued)
    /\ [][(lastResp'.kind = "created" /\ lastResp.kind # "created")
          => lastResp'.id \notin DOMAIN issued]_vars
    /\ [][\A id \in DOMAIN uploadSessions' \ DOMAIN uploadSessions :
             id \notin DOMAIN issued /\ lastResp'.kind = "created"
             /\ lastResp'.id = id]_vars

\* a second session is created after the first was removed
C35_Witness ==
    /\ lastResp.kind = "created" /\ lastResp.id = 2
    /\ 1 \in DOMAIN issued
    /\ 1 \notin DOMAIN uploadSessions


\* --------------------------------------------------------- scheduling
\* the hourly timer of the constructor fires and the sweep finds expired
\* sessions
Sweep == cleanupExpiredSessions

\* What C40 supposes of the runtime: a response that was written is sent,
\* time advances, and the interval timer keeps firing, whatever requests
\* are handled in between (strong fairness: handlers running in between
\* do not cancel the timer or stop the clock).
FairRegistrySpec ==
    /\ RegistrySpec
    /\ WF_vars(Respond)
    /\ SF_vars(Advance(LastExpiry))
    /\ SF_vars(Sweep)

\* C40: every session in the store is eventually absent from it.
C40_EverySessionLeaves ==
    \A id \in Ids :
       (id \in DOMAIN uploadSessions) ~> (id \notin DOMAIN uploadSessions)

\* a session that no request addressed after its creation and that never
\* completed has left the store
C40_Witness ==
    \E id \in Ids :
       /\ id \in DOMAIN issued
       /\ id \notin DOMAIN uploadSessions
       /\ id \notin patched
       /\ completions[id] = 0
       /\ deleteCalls[id] = 1
       /\ now = issued[id].expiresAt

====
